---- MODULE Spec2Model ----
(***************************************************************************)
(* Workout tracker of the Health Tracker App                               *)
(* (src/workouts/workouts-scripts.js): the in-memory tracker state, the    *)
(* localStorage keys it persists to, the daily rollover check and the      *)
(* self-rescheduling midnight timer.                                       *)
(*                                                                         *)
(* A handler runs to completion (single-threaded event loop), so every     *)
(* handler is one action.  The methods of WorkoutTracker are operators     *)
(* over a record m holding the fields of `this`, localStorage, the         *)
(* rendered tab list and the call counters of the running handler; a       *)
(* nested call in the source is a nested application here.                 *)
(***************************************************************************)
EXTENDS Integers, Sequences, FiniteSets, TLC

VARIABLES
    today,            \* the wall clock, as a day number counted from EpochDate
    workoutState,     \* this.workoutState : type -> {completed, order}
    workoutCounts,    \* this.workoutCounts : type -> click count
    workoutHistory,   \* this.workoutHistory : date string -> entries
    localStorage,     \* key -> stored string; <<>> is an absent key
    quota,            \* the room the browser leaves to localStorage
    tabs,             \* children of #workout-tabs-container, in display order
    midnightTimers,   \* pending setTimeout callbacks: TRUE once the delay is over
    globalReminderInterval,  \* the module variable: <<>> is null, <<h>> a handle
    intervalTimers,   \* the setInterval timers made so far, the handle being
                      \* the index: [minutes, active]
    reloadTimers,     \* the setTimeout timers of location.reload() made so
                      \* far: [pending, written], written being what the
                      \* handler that set the timer had stored
    last              \* what ran last: a handler and the calls it made, or midnight

vars == <<today, workoutState, workoutCounts, workoutHistory, localStorage,
          quota, tabs, midnightTimers, globalReminderInterval,
          intervalTimers, reloadTimers, last>>

----------------------------------------------------------------------------
(* Bounds *)

NumTypes == 2      \* how many of the workout types are tracked
MaxDay == 2        \* the clock stops advancing at this day number
MaxEntries == 3    \* no toggle once the history holds this many entries
MaxStored == 1     \* keys held by a store that export and import start from
MaxFields == 1     \* fields that hold a string in a partial document
MaxFree == 2       \* units left free in a store with a quota
MaxExcess == 1     \* days a long history holds above the days kept
MaxReminders == 4  \* calls of startGlobalReminder on one page
MaxMinutes == 2    \* the longest reminder interval asked for
MaxImports == 1    \* imports that set a reload timer
MaxResets == 1     \* calls of resetAllData

----------------------------------------------------------------------------
(* Constants of the program *)

AllWorkoutTypes ==
    <<"Chest", "Back", "Shoulders", "Biceps", "Triceps", "Abs", "Legs">>

workoutTypes == SubSeq(AllWorkoutTypes, 1, NumTypes)

Types == {workoutTypes[i] : i \in 1..Len(workoutTypes)}

stateKey == "workout_state"
historyKey == "workout_history"
countKey == "workout_count"
lastResetKey == "lastResetDate_workout"

\* STORAGE_KEYS: a prefix followed by the tracker type, or a whole key
GOAL_PREFIX(type) == IF type = "water" THEN "goal_water" ELSE "goal_protein"
INTAKE_PREFIX(type) ==
    IF type = "water" THEN "intake_water" ELSE "intake_protein"
HISTORY_PREFIX(type) ==
    IF type = "water" THEN "history_water" ELSE "history_protein"
THEME == "app_theme"
REMINDER == "global_reminder"
habitsKey == "habits_data"

TrackerTypes == {"water", "protein"}

StorageKeys ==
    {GOAL_PREFIX(t) : t \in TrackerTypes}
        \cup {INTAKE_PREFIX(t) : t \in TrackerTypes}
        \cup {HISTORY_PREFIX(t) : t \in TrackerTypes}
        \cup {stateKey, historyKey, countKey, lastResetKey, habitsKey,
              THEME, REMINDER}

\* this.workoutTypes.indexOf(type), zero-based as in the source
indexOf(type) == (CHOOSE i \in 1..Len(workoutTypes) : workoutTypes[i] = type) - 1

----------------------------------------------------------------------------
(* The local calendar: utils.formatDate(new Date())                        *)
(* A date string 'YYYY-MM-DD' is the tuple <<year, month, day>> of its     *)
(* zero-padded fields, so string equality is tuple equality and string     *)
(* order is the lexicographic order of the tuple.                          *)

EpochDate == <<2023, 12, 30>>

IsLeapYear(y) == (y % 4 = 0 /\ y % 100 # 0) \/ y % 400 = 0

DaysInMonth(y, m) ==
    IF m = 2 THEN (IF IsLeapYear(y) THEN 29 ELSE 28)
    ELSE IF m \in {4, 6, 9, 11} THEN 30 ELSE 31

NextDate(d) ==
    IF d[3] < DaysInMonth(d[1], d[2]) THEN <<d[1], d[2], d[3] + 1>>
    ELSE IF d[2] < 12 THEN <<d[1], d[2] + 1, 1>>
    ELSE <<d[1] + 1, 1, 1>>

RECURSIVE LocalDate(_)
LocalDate(n) == IF n = 0 THEN EpochDate ELSE NextDate(LocalDate(n - 1))

\* the fields written day first, 'DD-MM-YYYY'
formatDate_DayFirst(n) ==
    LET d == LocalDate(n) IN <<d[3], d[2], d[1]>>

formatDate(n) ==
    LET d == LocalDate(n) IN <<d[1], d[2], d[3]>>

\* a <= b for two strings of equally long zero-padded fields
StrLE(a, b) ==
    \/ a[1] < b[1]
    \/ a[1] = b[1] /\ a[2] < b[2]
    \/ a[1] = b[1] /\ a[2] = b[2] /\ a[3] <= b[3]

----------------------------------------------------------------------------
(* JSON and localStorage *)

(* A stored string is one of                                               *)
(*   [json |-> x]    the JSON text of the object or array x,               *)
(*   [scalar |-> n]  the JSON text of a number, as '2000',                 *)
(*   [raw |-> n]     n characters that are no JSON text ('' when n = 0),   *)
(* and, under lastResetDate_workout, a date string.  The length of a      *)
(* string is counted in units: a unit for a scalar or a date, a unit for   *)
(* an object and one more for each entry it holds.                         *)

JSONstringify(x) == [json |-> x]
JSONparse(s) == s.json

getItem(ls, key) == ls[key]

\* a string or null taken as a condition: null and '' are falsy
truthy(v) == v # <<>> /\ ~("raw" \in DOMAIN v[1] /\ v[1].raw = 0)

RECURSIVE SumLen(_, _)
SumLen(h, ds) ==
    IF ds = {} THEN 0
    ELSE LET d == CHOOSE x \in ds : TRUE
         IN Len(h[d]) + SumLen(h, ds \ {d})

TotalEntries(h) == SumLen(h, DOMAIN h)

\* the date-keyed histories: date string -> entries of the day
DateHistoryKeys == {HISTORY_PREFIX(t) : t \in TrackerTypes} \cup {historyKey}

\* the entries a date-keyed history holds
entries(history) ==
    Cardinality(UNION {{<<d, i>> : i \in 1..Len(history[d])} :
                          d \in DOMAIN history})

RECURSIVE habitsLength(_, _)
habitsLength(habits, i) ==
    IF i > Len(habits) THEN 0
    ELSE (IF "history" \in DOMAIN habits[i]
          THEN 1 + entries(habits[i].history) ELSE 1)
         + habitsLength(habits, i + 1)

\* value.length
length(key, value) ==
    IF key = lastResetKey THEN 1
    ELSE IF "raw" \in DOMAIN value THEN value.raw
    ELSE IF "scalar" \in DOMAIN value THEN 1
    ELSE IF key \in DateHistoryKeys THEN 1 + entries(value.json)
    ELSE IF key = habitsKey THEN 1 + habitsLength(value.json, 1)
    ELSE 1

RECURSIVE usageOf(_, _)
usageOf(ls, keys) ==
    IF keys = {} THEN 0
    ELSE LET key == CHOOSE k \in keys : TRUE
         IN (IF ls[key] = <<>> THEN 0 ELSE 1 + length(key, ls[key][1]))
            + usageOf(ls, keys \ {key})

\* storageManager.getUsage: key.length + value.length over the stored keys,
\* a key counting for one unit
getUsage(ls) == usageOf(ls, DOMAIN ls)

\* no limit within reach: the data of the tracker is far below the quota
NoQuota == [limited |-> FALSE, limit |-> 0]

Fits(ls, q) == ~q.limited \/ getUsage(ls) <= q.limit

Ok(m) == m.thrown = "none"

\* localStorage.setItem: throws QuotaExceededError, and stores nothing, when
\* the store would outgrow the quota; nothing runs after a throw until a
\* catch
\* F(v), the argument v being evaluated once
Once(v, F(_)) == CHOOSE r \in {F(x) : x \in {v}} : TRUE

setItem(m, key, value) ==
    Once(m, LAMBDA this :
        IF ~Ok(this) THEN this
        ELSE IF ~Fits([this.ls EXCEPT ![key] = <<value>>], this.quota)
        THEN [this EXCEPT !.thrown = "QuotaExceededError"]
        ELSE [this EXCEPT !.ls[key] = <<value>>])

EmptyStorage == [k \in StorageKeys |-> <<>>]

----------------------------------------------------------------------------
(* WorkoutTracker *)

defaultWorkoutState ==
    [type \in Types |-> [completed |-> FALSE, order |-> indexOf(type)]]

defaultWorkoutCounts == [type \in Types |-> 0]

emptyHistory == [d \in {} |-> <<>>]

\* completed workouts sent to the top instead of the bottom
compareTabs_CompletedFirst(a, b) ==
    IF a.completed # b.completed
    THEN (IF a.completed THEN -1 ELSE 1)
    ELSE a.order - b.order

\* the comparator of the sort in renderWorkoutTabs
compareTabs(a, b) ==
    IF a.completed # b.completed
    THEN (IF a.completed THEN 1 ELSE -1)
    ELSE a.order - b.order

\* Array.prototype.sort with the comparator: a stable insertion sort
RECURSIVE insertSorted(_, _, _)
insertSorted(ws, type, s) ==
    IF s = <<>> THEN <<type>>
    ELSE IF compareTabs(ws[type], ws[Head(s)]) < 0 THEN <<type>> \o s
    ELSE <<Head(s)>> \o insertSorted(ws, type, Tail(s))

RECURSIVE sortFrom(_, _, _)
sortFrom(ws, i, s) ==
    IF i > Len(workoutTypes) THEN s
    ELSE sortFrom(ws, i + 1, insertSorted(ws, workoutTypes[i], s))

sortedWorkouts(ws) == sortFrom(ws, 1, <<>>)

renderWorkoutTabs(m) ==
    Once(m, LAMBDA this :
        IF ~Ok(this) THEN this ELSE
        Once(sortedWorkouts(this.workoutState), LAMBDA sorted :
            [this EXCEPT !.tabs =
                [i \in 1..Len(sorted) |->
                    [type |-> sorted[i],
                     completed |-> this.workoutState[sorted[i]].completed,
                     badge |-> IF this.workoutCounts[sorted[i]] > 1
                               THEN this.workoutCounts[sorted[i]]
                               ELSE 0]]]))

\* utils.showToast
showToast(m, message) ==
    IF ~Ok(m) THEN m ELSE [m EXCEPT !.toasts = Append(@, message)]

saveState(m) ==
    Once(m, LAMBDA this :
        setItem(setItem(this, stateKey, JSONstringify(this.workoutState)),
                countKey, JSONstringify(this.workoutCounts)))

\* order is taken from the place of the tab in the display
resetWorkoutTabs_DisplayOrder(m) ==
    LET place(type) ==
            IF \E i \in 1..Len(m.tabs) : m.tabs[i].type = type
            THEN (CHOOSE i \in 1..Len(m.tabs) : m.tabs[i].type = type) - 1
            ELSE indexOf(type)
        m1 == [m EXCEPT
                 !.workoutState =
                     [type \in DOMAIN m.workoutState |->
                         IF type \in Types
                         THEN [completed |-> FALSE, order |-> place(type)]
                         ELSE m.workoutState[type]],
                 !.workoutCounts =
                     [type \in DOMAIN m.workoutCounts |->
                         IF type \in Types THEN 0 ELSE m.workoutCounts[type]],
                 !.resets = m.resets + 1]
    IN IF ~Ok(m) THEN m ELSE renderWorkoutTabs(saveState(m1))

\* the reset of the counts left out
resetWorkoutTabs_KeepsCounts(m) ==
    LET m1 == [m EXCEPT
                 !.workoutState =
                     [type \in DOMAIN m.workoutState |->
                         IF type \in Types
                         THEN [completed |-> FALSE, order |-> indexOf(type)]
                         ELSE m.workoutState[type]],
                 !.resets = m.resets + 1]
    IN IF ~Ok(m) THEN m ELSE renderWorkoutTabs(saveState(m1))

resetWorkoutTabs(m) ==
    Once(m, LAMBDA this :
        LET m1 == [this EXCEPT
                     !.workoutState =
                         [type \in DOMAIN this.workoutState |->
                             IF type \in Types
                             THEN [completed |-> FALSE,
                                   order |-> indexOf(type)]
                             ELSE this.workoutState[type]],
                     !.workoutCounts =
                         [type \in DOMAIN this.workoutCounts |->
                             IF type \in Types THEN 0
                             ELSE this.workoutCounts[type]],
                     !.resets = this.resets + 1]
        IN IF ~Ok(this) THEN this ELSE renderWorkoutTabs(saveState(m1)))

\* the entry replaces the bucket of the day instead of being pushed onto it
saveWorkoutHistory_Overwrites(m, type, now) ==
    LET currentDate == formatDate(now)
        h == m.workoutHistory
        entry == [type |-> type, count |-> m.workoutCounts[type],
                  timestamp |-> now]
        h1 == [d \in DOMAIN h \cup {currentDate} |->
                  IF d = currentDate THEN <<entry>> ELSE h[d]]
    IN setItem([m EXCEPT !.workoutHistory = h1], historyKey, JSONstringify(h1))

saveWorkoutHistory(m, type, now) ==
    LET currentDate == formatDate(now)
        h == m.workoutHistory
        bucket == IF currentDate \in DOMAIN h THEN h[currentDate] ELSE <<>>
        entry == [type |-> type, count |-> m.workoutCounts[type],
                  timestamp |-> now]
        h1 == [d \in DOMAIN h \cup {currentDate} |->
                  IF d = currentDate THEN Append(bucket, entry) ELSE h[d]]
    IN setItem([m EXCEPT !.workoutHistory = h1], historyKey, JSONstringify(h1))

\* the type is not marked completed
toggleWorkout_NoComplete(m, type, now) ==
    LET m1 == [m EXCEPT !.workoutCounts[type] = @ + 1]
        m2 == saveWorkoutHistory(m1, type, now)
        allCompleted == \A u \in DOMAIN m2.workoutState :
                            m2.workoutState[u].completed
    IN IF allCompleted
       THEN showToast(resetWorkoutTabs(m2), "allCompleted")
       ELSE showToast(renderWorkoutTabs(saveState(m2)), "markedComplete")

\* the count of the type is not increased
toggleWorkout_NoIncrement(m, type, now) ==
    LET m1 == [m EXCEPT !.workoutState[type].completed = TRUE]
        m2 == saveWorkoutHistory(m1, type, now)
        allCompleted == \A u \in DOMAIN m2.workoutState :
                            m2.workoutState[u].completed
    IN IF allCompleted
       THEN showToast(resetWorkoutTabs(m2), "allCompleted")
       ELSE showToast(renderWorkoutTabs(saveState(m2)), "markedComplete")

\* allCompleted is evaluated on the state found, before the type is marked
toggleWorkout_ChecksBefore(m, type, now) ==
    LET m1 == [m EXCEPT !.workoutCounts[type] = @ + 1,
                        !.workoutState[type].completed = TRUE]
        m2 == saveWorkoutHistory(m1, type, now)
        allCompleted == \A u \in DOMAIN m.workoutState :
                            m.workoutState[u].completed
    IN IF allCompleted
       THEN showToast(resetWorkoutTabs(m2), "allCompleted")
       ELSE showToast(renderWorkoutTabs(saveState(m2)), "markedComplete")

toggleWorkout(m, type, now) ==
    LET m1 == [m EXCEPT !.workoutCounts[type] = @ + 1,
                        !.workoutState[type].completed = TRUE]
        m2 == saveWorkoutHistory(m1, type, now)
        allCompleted == \A u \in DOMAIN m2.workoutState :
                            m2.workoutState[u].completed
    IN IF allCompleted
       THEN showToast(resetWorkoutTabs(m2), "allCompleted")
       ELSE showToast(renderWorkoutTabs(saveState(m2)), "markedComplete")

\* the whole history is dropped, not only the bucket of the day
resetDailyWorkouts_ClearsAll(m, now) ==
    LET m1 == resetWorkoutTabs(m)
        currentDate == formatDate(now)
        h == m1.workoutHistory
    IN IF Ok(m1) /\ currentDate \in DOMAIN h
       THEN setItem([m1 EXCEPT !.workoutHistory = emptyHistory,
                               !.histDeletes = @ + 1],
                    historyKey, JSONstringify(emptyHistory))
       ELSE m1

resetDailyWorkouts(m, now) ==
    Once(resetWorkoutTabs(m), LAMBDA m1 :
        LET currentDate == formatDate(now)
            h == m1.workoutHistory
        IN IF Ok(m1) /\ currentDate \in DOMAIN h
           THEN LET h1 == [d \in DOMAIN h \ {currentDate} |-> h[d]]
                IN setItem([m1 EXCEPT !.workoutHistory = h1,
                                      !.histDeletes = @ + 1],
                           historyKey, JSONstringify(h1))
           ELSE m1)

\* localStorage.setItem(this.lastResetKey, currentDate), the call counted
writeMarker(m, currentDate) ==
    Once(m, LAMBDA this :
        IF ~Ok(this) THEN this
        ELSE [setItem(this, lastResetKey, currentDate)
                 EXCEPT !.markerWrites = @ + 1])

\* the marker is not written after the reset
checkAndResetDailyWorkouts_NoMarker(m, now) ==
    LET currentDate == formatDate(now)
        lastResetDate == getItem(m.ls, lastResetKey)
    IN IF lastResetDate # <<currentDate>>
       THEN resetDailyWorkouts(m, now)
       ELSE m

\* the marker is moved on by one day for each check
checkAndResetDailyWorkouts_OneDay(m, now) ==
    LET currentDate == formatDate(now)
        lastResetDate == getItem(m.ls, lastResetKey)
    IN IF lastResetDate # <<currentDate>>
       THEN writeMarker(resetDailyWorkouts(m, now),
                        IF lastResetDate = <<>> THEN currentDate
                        ELSE NextDate(lastResetDate[1]))
       ELSE m

\* an absent marker is taken for an up-to-date one
checkAndResetDailyWorkouts_AbsentSame(m, now) ==
    LET currentDate == formatDate(now)
        lastResetDate == getItem(m.ls, lastResetKey)
    IN IF lastResetDate # <<>> /\ lastResetDate # <<currentDate>>
       THEN writeMarker(resetDailyWorkouts(m, now), currentDate)
       ELSE m

checkAndResetDailyWorkouts(m, now) ==
    LET currentDate == formatDate(now)
        lastResetDate == getItem(m.ls, lastResetKey)
    IN IF lastResetDate # <<currentDate>>
       THEN writeMarker(resetDailyWorkouts(m, now), currentDate)
       ELSE m

\* setTimeout(..., msUntilMidnight): the delay runs until the next local
\* midnight, so it is not over while the date is the one it was set on
\* the callback sets no timer for the following midnight
setupMidnightReset_NoTimer(timers) == timers

setupMidnightReset(timers) == Append(timers, FALSE)

initializeTracker(m, now) ==
    renderWorkoutTabs(checkAndResetDailyWorkouts(m, now))

\* JSON.parse(v) returns: v is null (parsed to null) or the text of a JSON
\* value; on any other text, the empty one included, it throws SyntaxError
parses(v) == IF v = <<>> THEN TRUE ELSE "json" \in DOMAIN v[1]

\* the tracker keys holding a text JSON.parse throws on
unparseable(ls) ==
    {key \in {stateKey, countKey, historyKey} : ~parses(getItem(ls, key))}

\* new WorkoutTracker(): load the three keys, then initializeTracker().
\* When JSON.parse throws the constructor ends there: no tracker object is
\* assigned and the fields below stand for a tracker that does not exist.
constructor(ls, q, now) ==
    LET s == getItem(ls, stateKey)
        c == getItem(ls, countKey)
        h == getItem(ls, historyKey)
        m == [workoutState |-> IF s # <<>> /\ parses(s) THEN JSONparse(s[1])
                               ELSE defaultWorkoutState,
              workoutCounts |-> IF c # <<>> /\ parses(c) THEN JSONparse(c[1])
                                ELSE defaultWorkoutCounts,
              workoutHistory |-> IF h # <<>> /\ parses(h) THEN JSONparse(h[1])
                                 ELSE emptyHistory,
              ls |-> ls, quota |-> q,
              thrown |-> IF unparseable(ls) = {} THEN "none"
                         ELSE "SyntaxError",
              tabs |-> <<>>,
              resets |-> 0, histDeletes |-> 0, markerWrites |-> 0,
              toasts |-> <<>>]
    IN initializeTracker(m, now)

----------------------------------------------------------------------------
(* The state machine *)

\* the tracker as the running handler finds it
This ==
    [workoutState |-> workoutState, workoutCounts |-> workoutCounts,
     workoutHistory |-> workoutHistory, ls |-> localStorage,
     quota |-> quota, thrown |-> "none", tabs |-> tabs,
     resets |-> 0, histDeletes |-> 0, markerWrites |-> 0, toasts |-> <<>>]

\* what a handler did: the calls it made, the marker it found, whether it
\* found a completed type and the exception it let through
Done(op, type, m, ls, now) ==
    [op |-> op, type |-> type, date |-> formatDate(now),
     markerBefore |-> getItem(ls, lastResetKey),
     hadCompleted |-> \E u \in Types : workoutState[u].completed,
     resets |-> m.resets, histDeletes |-> m.histDeletes,
     markerWrites |-> m.markerWrites, toasts |-> m.toasts,
     thrown |-> m.thrown, unparseable |-> unparseable(ls)]

Commit(m) ==
    /\ workoutState' = m.workoutState
    /\ workoutCounts' = m.workoutCounts
    /\ workoutHistory' = m.workoutHistory
    /\ localStorage' = m.ls
    /\ tabs' = m.tabs

Range(s) == {s[i] : i \in 1..Len(s)}

Init ==
    LET m == constructor(EmptyStorage, NoQuota, 0) IN
    /\ today = 0
    /\ quota = NoQuota
    /\ workoutState = m.workoutState
    /\ workoutCounts = m.workoutCounts
    /\ workoutHistory = m.workoutHistory
    /\ localStorage = m.ls
    /\ tabs = m.tabs
    /\ midnightTimers = setupMidnightReset(<<>>)
    /\ globalReminderInterval = <<>>
    /\ intervalTimers = <<>>
    /\ reloadTimers = <<>>
    /\ last = [op |-> "init", type |-> "none", date |-> formatDate(0),
               markerBefore |-> <<>>, hadCompleted |-> FALSE,
               resets |-> m.resets, histDeletes |-> m.histDeletes,
               markerWrites |-> m.markerWrites, toasts |-> m.toasts,
               thrown |-> m.thrown, unparseable |-> {}]

\* the local date changes at midnight
AdvanceDate ==
    /\ today < MaxDay
    /\ today' = today + 1
    /\ midnightTimers' = [i \in 1..Len(midnightTimers) |-> TRUE]
    /\ last' = Done("midnight", "none", This, localStorage, today + 1)
    /\ UNCHANGED <<globalReminderInterval, intervalTimers, reloadTimers>>
    /\ UNCHANGED <<workoutState, workoutCounts, workoutHistory, localStorage,
                   quota, tabs>>

\* click on the tab of a workout type
Toggle(type) ==
    /\ \E i \in 1..Len(tabs) : tabs[i].type = type
    /\ TotalEntries(workoutHistory) < MaxEntries
    /\ LET m == toggleWorkout(This, type, today) IN
         /\ Commit(m)
         /\ last' = Done("toggle", type, m, localStorage, today)
    /\ UNCHANGED <<globalReminderInterval, intervalTimers, reloadTimers>>
    /\ UNCHANGED <<today, quota, midnightTimers>>

\* the user's "reset tabs" action
ResetTabs ==
    /\ LET m == resetWorkoutTabs(This) IN
         /\ Commit(m)
         /\ last' = Done("resetTabs", "none", m, localStorage, today)
    /\ UNCHANGED <<globalReminderInterval, intervalTimers, reloadTimers>>
    /\ UNCHANGED <<today, quota, midnightTimers>>

\* a rollover check asked for by the page
CheckRollover ==
    /\ LET m == checkAndResetDailyWorkouts(This, today) IN
         /\ Commit(m)
         /\ last' = Done("check", "none", m, localStorage, today)
    /\ UNCHANGED <<globalReminderInterval, intervalTimers, reloadTimers>>
    /\ UNCHANGED <<today, quota, midnightTimers>>

\* the callback of setupMidnightReset, at or after the time it was set for
MidnightTimer ==
    \E i \in 1..Len(midnightTimers) :
        /\ midnightTimers[i]
        /\ \E m \in {checkAndResetDailyWorkouts(This, today)} :
           LET rest == [j \in 1..(Len(midnightTimers) - 1) |->
                           IF j < i THEN midnightTimers[j]
                           ELSE midnightTimers[j + 1]]
           IN /\ Commit(m)
              /\ midnightTimers' =
                    IF Ok(m) THEN setupMidnightReset(rest) ELSE rest
              /\ last' = Done("timer", "none", m, localStorage, today)
        /\ UNCHANGED <<globalReminderInterval, intervalTimers, reloadTimers>>
        /\ UNCHANGED <<today, quota>>

\* the page is loaded again: a new tracker is constructed from the store
Reload ==
    /\ LET m == constructor(localStorage, quota, today) IN
         /\ Commit(m)
         /\ last' = Done("init", "none", m, localStorage, today)
         /\ midnightTimers' = IF Ok(m) THEN setupMidnightReset(<<>>) ELSE <<>>
    /\ UNCHANGED <<globalReminderInterval, intervalTimers, reloadTimers>>
    /\ UNCHANGED <<today, quota>>

Next ==
    \/ AdvanceDate
    \/ \E type \in Types : Toggle(type)
    \/ ResetTabs
    \/ CheckRollover
    \/ MidnightTimer
    \/ Reload

Spec == Init /\ [][Next]_vars

----------------------------------------------------------------------------
(* Properties *)

Marker == getItem(localStorage, lastResetKey)

Today == formatDate(today)

Completed(ws) == {u \in Types : ws[u].completed}

BucketOf(h, d) == IF d \in DOMAIN h THEN h[d] ELSE <<>>

\* the history held under workout_history, an absent key being the empty one
StoredHistory(ls) ==
    IF getItem(ls, historyKey) = <<>> THEN emptyHistory
    ELSE JSONparse(getItem(ls, historyKey)[1])

IsCheckOp(op) == op \in {"check", "timer", "init"}

\* a step that runs checkAndResetDailyWorkouts
CheckStep == CheckRollover \/ MidnightTimer \/ Reload

AllReset(ws, wc) ==
    \A u \in Types : ~ws[u].completed /\ ws[u].order = indexOf(u) /\ wc[u] = 0

\* C1 (as stated): after toggleWorkout(t) the count of t is its old count
\* plus 1 and t is completed, in every reachable state.
C1_EveryToggleCounts ==
    [][\A t \in Types : Toggle(t) =>
          /\ workoutCounts'[t] = workoutCounts[t] + 1
          /\ workoutState'[t].completed]_vars

\* C1 (amended): after toggleWorkout(t) the count of t is its old count plus
\* 1 and t is completed, unless t was the last incomplete type: then the
\* set has been reset, the count of t is 0 and t is not completed.
C1_ToggleCounts ==
    [][\A t \in Types : Toggle(t) =>
          IF Types \ {t} \subseteq Completed(workoutState)
          THEN workoutCounts'[t] = 0 /\ ~workoutState'[t].completed
          ELSE /\ workoutCounts'[t] = workoutCounts[t] + 1
               /\ workoutState'[t].completed]_vars

\* a toggle that took a type from count 1 to count 2
C1_Witness ==
    /\ last.op = "toggle"
    /\ last.toasts = <<"markedComplete">>
    /\ workoutCounts[last.type] = 2

\* C2: toggleWorkout(t) appends exactly one entry, of type t and count the
\* old count of t plus 1, to the end of the bucket of today; the entries
\* already in that bucket and all other buckets keep content and order,
\* also when the toggle completes the set.
C2_ToggleAppendsOneEntry ==
    [][\A t \in Types : Toggle(t) =>
          LET old == BucketOf(workoutHistory, Today)
              new == BucketOf(workoutHistory', Today)
          IN /\ Len(new) = Len(old) + 1
             /\ SubSeq(new, 1, Len(old)) = old
             /\ new[Len(new)].type = t
             /\ new[Len(new)].count = workoutCounts[t] + 1
             /\ DOMAIN workoutHistory' = DOMAIN workoutHistory \cup {Today}
             /\ \A d \in DOMAIN workoutHistory \ {Today} :
                    workoutHistory'[d] = workoutHistory[d]]_vars

\* a toggle that completed the set, appended to a bucket that already had
\* entries, with a bucket of an earlier day in the history
C2_Witness ==
    /\ last.op = "toggle"
    /\ last.toasts = <<"allCompleted">>
    /\ last.date \in DOMAIN workoutHistory
    /\ Len(workoutHistory[last.date]) >= 2
    /\ DOMAIN workoutHistory # {last.date}

\* C3: a toggle gives the all-complete outcome exactly when, its type
\* marked, every type is completed; then there is exactly one reset of
\* completion, order and counts, the history is kept and the ordinary
\* outcome is not emitted; otherwise there is no reset and only the
\* ordinary outcome.
C3_AllCompleteOutcome ==
    [][\A t \in Types : Toggle(t) =>
          LET all == Types \ {t} \subseteq Completed(workoutState)
          IN /\ ("allCompleted" \in Range(last'.toasts)) <=> all
             /\ all =>
                  /\ last'.toasts = <<"allCompleted">>
                  /\ last'.resets = 1
                  /\ AllReset(workoutState', workoutCounts')
                  /\ last'.histDeletes = 0
                  /\ TotalEntries(workoutHistory') =
                         TotalEntries(workoutHistory) + 1
                  /\ StoredHistory(localStorage') = workoutHistory'
             /\ ~all =>
                  /\ last'.toasts = <<"markedComplete">>
                  /\ last'.resets = 0]_vars

\* the toggle of the last incomplete type
C3_Witness ==
    /\ last.op = "toggle"
    /\ last.toasts = <<"allCompleted">>
    /\ last.resets = 1

C5_ResetTabsKeepsHistory ==
    [][ResetTabs =>
          /\ \A u \in Types :
                ~workoutState'[u].completed /\ workoutCounts'[u] = 0
          /\ workoutHistory' = workoutHistory
          /\ getItem(localStorage', historyKey) =
                 getItem(localStorage, historyKey)]_vars

\* a reset of tabs with completed types and entries of today
C5_Witness ==
    /\ last.op = "resetTabs"
    /\ last.hadCompleted
    /\ last.date = Today
    /\ BucketOf(workoutHistory, Today) # <<>>
    /\ BucketOf(StoredHistory(localStorage), Today) # <<>>

\* C6: the daily reset leaves every type incomplete with count 0 and
\* removes exactly the bucket of today, in memory and in the store; the
\* buckets of all other dates are as they were.
C6_DailyResetRemovesToday ==
    [][(CheckStep /\ Marker # <<Today>>) =>
          /\ \A u \in Types :
                ~workoutState'[u].completed /\ workoutCounts'[u] = 0
          /\ DOMAIN workoutHistory' = DOMAIN workoutHistory \ {Today}
          /\ \A d \in DOMAIN workoutHistory' :
                workoutHistory'[d] = workoutHistory[d]
          /\ DOMAIN StoredHistory(localStorage') =
                 DOMAIN StoredHistory(localStorage) \ {Today}
          /\ \A d \in DOMAIN StoredHistory(localStorage') :
                StoredHistory(localStorage')[d] =
                    StoredHistory(localStorage)[d]]_vars

\* a daily reset that removed the bucket of its day and kept another one
C6_Witness ==
    /\ IsCheckOp(last.op)
    /\ last.resets = 1
    /\ last.histDeletes = 1
    /\ last.date \notin DOMAIN workoutHistory
    /\ workoutHistory # emptyHistory
    /\ StoredHistory(localStorage) = workoutHistory

\* C7: a check made when the marker is today changes neither the tracker
\* state, the history nor the marker and makes no reset and no write; two
\* checks in a row on one date make at most one reset and one write of the
\* marker between them.
C7_RolloverIdempotent ==
    [][/\ (CheckStep /\ Marker = <<Today>>) =>
            /\ last'.resets = 0 /\ last'.markerWrites = 0
            /\ last'.histDeletes = 0
            /\ localStorage' = localStorage
       /\ ((CheckRollover \/ MidnightTimer) /\ Marker = <<Today>>) =>
            UNCHANGED <<workoutState, workoutCounts, workoutHistory>>
       /\ (CheckStep /\ IsCheckOp(last.op) /\ last.date = Today) =>
            /\ last.resets + last'.resets <= 1
            /\ last.markerWrites + last'.markerWrites <= 1]_vars

\* a check that found the marker of its day after toggles of that day
C7_Witness ==
    /\ last.op \in {"check", "timer"}
    /\ last.markerBefore = <<last.date>>
    /\ last.resets = 0
    /\ last.date = Today
    /\ Completed(workoutState) # {}
    /\ BucketOf(workoutHistory, Today) # <<>>

\* C8: a check that finds a marker of an earlier day, however many days
\* back, makes exactly one reset and one write of the marker and leaves
\* the marker at today.
C8_OneCatchUpRollover ==
    [][(CheckStep /\ Marker # <<>> /\ Marker # <<Today>>) =>
          /\ last'.resets = 1
          /\ last'.markerWrites = 1
          /\ getItem(localStorage', lastResetKey) = <<Today>>]_vars

\* a check that found the marker two days back
C8_Witness ==
    /\ IsCheckOp(last.op)
    /\ today >= 2
    /\ last.date = Today
    /\ last.markerBefore = <<formatDate(today - 2)>>
    /\ last.resets = 1
    /\ last.markerWrites = 1
    /\ Marker = <<Today>>

\* C9: a check resets exactly when today differs from the stored marker,
\* an absent marker counting as different; when it does, the tracker is
\* reset and the marker set to today; after every check, and after the
\* construction of the tracker, the marker is the date of that check.
C9_CheckFiresIffStale ==
    /\ [](IsCheckOp(last.op) => Marker = <<last.date>>)
    /\ [][CheckStep =>
            /\ (last'.resets >= 1) <=> (Marker # <<Today>>)
            /\ (Marker # <<Today>>) =>
                  /\ AllReset(workoutState', workoutCounts')
                  /\ last'.markerWrites = 1
            /\ getItem(localStorage', lastResetKey) = <<Today>>]_vars

\* the construction of the tracker on an empty store
C9_Witness ==
    /\ last.op = "init"
    /\ last.markerBefore = <<>>
    /\ last.resets = 1
    /\ Marker = <<last.date>>

\* C10: while the clock only advances, the stored marker never moves to an
\* earlier date: each value written is greater than or equal to the value
\* it replaces.
C10_MarkerMonotone ==
    [][(Marker # <<>> /\ getItem(localStorage', lastResetKey) # <<>>) =>
          StrLE(Marker[1], getItem(localStorage', lastResetKey)[1])]_vars

\* the marker written across the turn of the year
C10_Witness ==
    /\ IsCheckOp(last.op)
    /\ last.markerBefore # <<>>
    /\ last.markerBefore # <<last.date>>
    /\ Marker = <<last.date>>
    /\ last.date[1] > last.markerBefore[1][1]

----------------------------------------------------------------------------
(* storageManager: cleanupOldData and safeSetItem                          *)

\* the days of history cleanupOldData keeps
RetentionDays == 90

\* a < b for two date strings
StrLT(a, b) == StrLE(a, b) /\ a # b

\* Object.keys(history).sort(): the keys in ascending string order, the
\* i-th being the key with i - 1 keys before it
sortedKeys(history) ==
    LET keys == DOMAIN history
        placed == {<<Cardinality({e \in keys : StrLT(e, d)}) + 1, d>> :
                      d \in keys}
    IN [i \in 1..Cardinality(keys) |-> (CHOOSE p \in placed : p[1] = i)[2]]

\* the most recent dates are removed instead of the oldest
datesToRemove_Newest(dates) ==
    {dates[i] : i \in (RetentionDays + 1)..Len(dates)}

\* dates.slice(0, dates.length - 90)
datesToRemove(dates) == {dates[i] : i \in 1..(Len(dates) - RetentionDays)}

\* delete history[date] for each date to remove
pruned(history) ==
    LET dates == sortedKeys(history) IN
    IF Len(dates) > RetentionDays
    THEN [d \in DOMAIN history \ datesToRemove(dates) |-> history[d]]
    ELSE history

tooLong(history) == Cardinality(DOMAIN history) > RetentionDays

hasHistory(habit) == "history" \in DOMAIN habit

\* catch (e) { console.error(...) }
catch(m) == [m EXCEPT !.thrown = "none"]

\* cleanedUp is set for every array under habits_data, pruned or not
cleanupKey_FlagsEveryArray(c, key) ==
    LET historyData == getItem(c.ls, key)
        history == JSONparse(historyData[1])
        habits ==
            [i \in 1..Len(history) |->
                IF hasHistory(history[i])
                THEN [history[i] EXCEPT !.history = pruned(@)]
                ELSE history[i]]
        anyTooLong ==
            \E i \in 1..Len(history) :
                hasHistory(history[i]) /\ tooLong(history[i].history)
        written == setItem(c, key, JSONstringify(pruned(history)))
    IN IF ~truthy(historyData) THEN c
       ELSE IF "raw" \in DOMAIN historyData[1] THEN c
       ELSE IF "scalar" \in DOMAIN historyData[1] THEN c
       ELSE IF key = habitsKey
       THEN catch(setItem([c EXCEPT !.cleanedUp = TRUE],
                          key, JSONstringify(habits)))
       ELSE IF tooLong(history)
       THEN (IF Ok(written) THEN [written EXCEPT !.cleanedUp = TRUE]
             ELSE catch(written))
       ELSE c

\* a habit with a history is written back without its other fields
cleanupKey_DropsHabitFields(c, key) ==
    LET historyData == getItem(c.ls, key)
        history == JSONparse(historyData[1])
        habits ==
            [i \in 1..Len(history) |->
                IF hasHistory(history[i])
                THEN [history |-> pruned(history[i].history)]
                ELSE history[i]]
        anyTooLong ==
            \E i \in 1..Len(history) :
                hasHistory(history[i]) /\ tooLong(history[i].history)
        written == setItem(c, key, JSONstringify(pruned(history)))
    IN IF ~truthy(historyData) THEN c
       ELSE IF "raw" \in DOMAIN historyData[1] THEN c
       ELSE IF "scalar" \in DOMAIN historyData[1] THEN c
       ELSE IF key = habitsKey
       THEN catch(setItem([c EXCEPT !.cleanedUp = @ \/ anyTooLong],
                          key, JSONstringify(habits)))
       ELSE IF tooLong(history)
       THEN (IF Ok(written) THEN [written EXCEPT !.cleanedUp = TRUE]
             ELSE catch(written))
       ELSE c

\* the body of historyKeys.forEach in cleanupOldData, with its try / catch;
\* c holds the store, the quota and cleanedUp
cleanupKey(c, key) ==
    LET historyData == getItem(c.ls, key)
        history == JSONparse(historyData[1])
        habits ==
            [i \in 1..Len(history) |->
                IF hasHistory(history[i])
                THEN [history[i] EXCEPT !.history = pruned(@)]
                ELSE history[i]]
        anyTooLong ==
            \E i \in 1..Len(history) :
                hasHistory(history[i]) /\ tooLong(history[i].history)
        written == setItem(c, key, JSONstringify(pruned(history)))
    IN IF ~truthy(historyData) THEN c
       ELSE IF "raw" \in DOMAIN historyData[1] THEN c
       ELSE IF "scalar" \in DOMAIN historyData[1] THEN c
       ELSE IF key = habitsKey
       THEN catch(setItem([c EXCEPT !.cleanedUp = @ \/ anyTooLong],
                          key, JSONstringify(habits)))
       ELSE IF tooLong(history)
       THEN (IF Ok(written) THEN [written EXCEPT !.cleanedUp = TRUE]
             ELSE catch(written))
       ELSE c

\* the keys cleanupOldData goes through, in its order
historyKeys ==
    <<HISTORY_PREFIX("water"), HISTORY_PREFIX("protein"), historyKey,
      habitsKey>>

RECURSIVE cleanupKeys(_, _)
cleanupKeys(c, i) ==
    IF i > Len(historyKeys) THEN c
    ELSE cleanupKeys(cleanupKey(c, historyKeys[i]), i + 1)

\* storageManager.cleanupOldData: the store it leaves and what it returns
cleanupOldData(ls, q) ==
    cleanupKeys([ls |-> ls, quota |-> q, thrown |-> "none",
                 cleanedUp |-> FALSE], 1)

\* the retry is made whatever cleanupOldData returned
safeSetItem_AlwaysRetries(ls, q, key, value) ==
    LET start == [ls |-> ls, quota |-> q, thrown |-> "none"]
        first == setItem(start, key, value)
        c == cleanupOldData(ls, q)
        second == setItem([start EXCEPT !.ls = c.ls], key, value)
    IN IF Ok(first)
       THEN [returned |-> TRUE, ls |-> first.ls, attempts |-> 1,
             cleanups |-> 0, thrown |-> first.thrown]
       ELSE IF first.thrown # "QuotaExceededError"
       THEN [returned |-> FALSE, ls |-> first.ls, attempts |-> 1,
             cleanups |-> 0, thrown |-> catch(first).thrown]
       ELSE [returned |-> Ok(second), ls |-> second.ls, attempts |-> 2,
             cleanups |-> 1, thrown |-> catch(second).thrown]

\* storageManager.safeSetItem: what it returns, the store it leaves, the
\* calls of setItem(key, value) and of cleanupOldData it made and the
\* exception it let through
safeSetItem(ls, q, key, value) ==
    LET start == [ls |-> ls, quota |-> q, thrown |-> "none"]
        first == setItem(start, key, value)
        c == cleanupOldData(ls, q)
        second == setItem([start EXCEPT !.ls = c.ls], key, value)
    IN IF Ok(first)
       THEN [returned |-> TRUE, ls |-> first.ls, attempts |-> 1,
             cleanups |-> 0, thrown |-> first.thrown]
       ELSE IF first.thrown # "QuotaExceededError"
       THEN [returned |-> FALSE, ls |-> first.ls, attempts |-> 1,
             cleanups |-> 0, thrown |-> catch(first).thrown]
       ELSE IF c.cleanedUp
       THEN [returned |-> Ok(second), ls |-> second.ls, attempts |-> 2,
             cleanups |-> 1, thrown |-> catch(second).thrown]
       ELSE [returned |-> FALSE, ls |-> c.ls, attempts |-> 1,
             cleanups |-> 1, thrown |-> c.thrown]

----------------------------------------------------------------------------
(* exportData and importData                                               *)
(* The document is a record of sections, a section being <<>> (absent or   *)
(* null), <<[scalar |-> n]>> (a value that is no object) or the record of  *)
(* its fields in a one-element tuple; a field is <<>> (absent or null) or  *)
(* the string it holds in a one-element tuple.                             *)

\* the fields of the document and the key each is read from and written to,
\* in the order of the source
DataFields ==
    << [section |-> "water", field |-> "goal", key |-> GOAL_PREFIX("water")],
       [section |-> "water", field |-> "intake",
        key |-> INTAKE_PREFIX("water")],
       [section |-> "water", field |-> "history",
        key |-> HISTORY_PREFIX("water")],
       [section |-> "protein", field |-> "goal",
        key |-> GOAL_PREFIX("protein")],
       [section |-> "protein", field |-> "intake",
        key |-> INTAKE_PREFIX("protein")],
       [section |-> "protein", field |-> "history",
        key |-> HISTORY_PREFIX("protein")],
       [section |-> "workout", field |-> "state", key |-> stateKey],
       [section |-> "workout", field |-> "count", key |-> countKey],
       [section |-> "workout", field |-> "history", key |-> historyKey],
       [section |-> "habits", field |-> "data", key |-> habitsKey],
       [section |-> "settings", field |-> "theme", key |-> THEME],
       [section |-> "settings", field |-> "reminder", key |-> REMINDER] >>

\* typeof section === 'object', for a section that is not null
isObject(section) == "scalar" \notin DOMAIN section[1]

\* importedData[section][field], undefined when the section has no fields
fieldOf(data, f) ==
    IF data[f.section] = <<>> \/ ~isObject(data[f.section]) THEN <<>>
    ELSE data[f.section][1][f.field]

\* the intake of water is read from the key of its goal
exportData_IntakeFromGoal(ls) ==
    LET data ==
          [water |-> <<[goal |-> getItem(ls, GOAL_PREFIX("water")),
                        intake |-> getItem(ls, GOAL_PREFIX("water")),
                        history |-> getItem(ls, HISTORY_PREFIX("water"))]>>,
           protein |-> <<[goal |-> getItem(ls, GOAL_PREFIX("protein")),
                          intake |-> getItem(ls, INTAKE_PREFIX("protein")),
                          history |-> getItem(ls, HISTORY_PREFIX("protein"))]>>,
           workout |-> <<[state |-> getItem(ls, stateKey),
                          count |-> getItem(ls, countKey),
                          history |-> getItem(ls, historyKey)]>>,
           habits |-> <<[data |-> getItem(ls, habitsKey)]>>,
           settings |-> <<[theme |-> getItem(ls, THEME),
                           reminder |-> getItem(ls, REMINDER)]>>]
        dataIsValid ==
            ~(/\ ~truthy(data.water[1].goal)
              /\ ~truthy(data.protein[1].goal)
              /\ ~truthy(data.habits[1].data))
    IN IF ~dataIsValid THEN [result |-> "NoData", file |-> <<>>, ls |-> ls]
       ELSE [result |-> "Exported", file |-> <<JSONstringify(data)>>,
             ls |-> ls]

\* exportData: the document, or NoData; the file is the JSON text of the
\* document
exportData(ls) ==
    LET data ==
          [water |-> <<[goal |-> getItem(ls, GOAL_PREFIX("water")),
                        intake |-> getItem(ls, INTAKE_PREFIX("water")),
                        history |-> getItem(ls, HISTORY_PREFIX("water"))]>>,
           protein |-> <<[goal |-> getItem(ls, GOAL_PREFIX("protein")),
                          intake |-> getItem(ls, INTAKE_PREFIX("protein")),
                          history |-> getItem(ls, HISTORY_PREFIX("protein"))]>>,
           workout |-> <<[state |-> getItem(ls, stateKey),
                          count |-> getItem(ls, countKey),
                          history |-> getItem(ls, historyKey)]>>,
           habits |-> <<[data |-> getItem(ls, habitsKey)]>>,
           settings |-> <<[theme |-> getItem(ls, THEME),
                           reminder |-> getItem(ls, REMINDER)]>>]
        dataIsValid ==
            ~(/\ ~truthy(data.water[1].goal)
              /\ ~truthy(data.protein[1].goal)
              /\ ~truthy(data.habits[1].data))
    IN IF ~dataIsValid THEN [result |-> "NoData", file |-> <<>>, ls |-> ls]
       ELSE [result |-> "Exported", file |-> <<JSONstringify(data)>>,
             ls |-> ls]

requiredSections == {"water", "protein"}

\* const availableSpace = 5 * 1024 * 1024, in units of 64 KiB
availableSpace == 80

\* JSON.stringify(importedData).length: the strings the fields hold
RECURSIVE importSize(_, _)
importSize(data, i) ==
    IF i > Len(DataFields) THEN 0
    ELSE (IF fieldOf(data, DataFields[i]) = <<>> THEN 0
          ELSE length(DataFields[i].key, fieldOf(data, DataFields[i])[1]))
         + importSize(data, i + 1)

\* a file without the protein section is let through
validate_WaterOnly(file) ==
    IF "raw" \in DOMAIN file THEN "NotJSON"
    ELSE IF "scalar" \in DOMAIN file
    THEN (IF file.scalar = 0 THEN "MalformedSnapshot" ELSE "MissingSection")
    ELSE LET importedData == JSONparse(file) IN
         IF importedData.water = <<>> THEN "MissingSection"
         ELSE IF \E section \in requiredSections :
                    /\ importedData[section] # <<>>
                    /\ ~isObject(importedData[section])
         THEN "InvalidSectionFormat"
         ELSE IF 10 * importSize(importedData, 1) > 9 * availableSpace
         THEN "TooLarge"
         ELSE "valid"

\* the checks of reader.onload before the confirmation; the file holds no
\* JSON text, a scalar (0 for null, 0, false or '') or a document
validate(file) ==
    IF "raw" \in DOMAIN file THEN "NotJSON"
    ELSE IF "scalar" \in DOMAIN file
    THEN (IF file.scalar = 0 THEN "MalformedSnapshot" ELSE "MissingSection")
    ELSE LET importedData == JSONparse(file) IN
         IF \E section \in requiredSections : importedData[section] = <<>>
         THEN "MissingSection"
         ELSE IF \E section \in requiredSections :
                    ~isObject(importedData[section])
         THEN "InvalidSectionFormat"
         ELSE IF 10 * importSize(importedData, 1) > 9 * availableSpace
         THEN "TooLarge"
         ELSE "valid"

\* the key of a field that holds no string is removed
importField_RemovesAbsent(m, data, f) ==
    IF truthy(fieldOf(data, f)) THEN setItem(m, f.key, fieldOf(data, f)[1])
    ELSE [m EXCEPT !.ls[f.key] = <<>>]

\* if (importedData.section.field) localStorage.setItem(key, ...)
importField(m, data, f) ==
    IF truthy(fieldOf(data, f)) THEN setItem(m, f.key, fieldOf(data, f)[1])
    ELSE m

RECURSIVE importFields(_, _, _)
importFields(m, data, i) ==
    IF i > Len(DataFields) THEN m
    ELSE importFields(importField(m, data, DataFields[i]), data, i + 1)

\* localStorage.clear()
clear(m) == IF ~Ok(m) THEN m ELSE [m EXCEPT !.ls = [k \in DOMAIN m.ls |-> <<>>]]

RECURSIVE restoreKeys(_, _, _)
restoreKeys(m, backup, keys) ==
    IF keys = {} THEN m
    ELSE LET key == CHOOSE k \in keys : TRUE
         IN restoreKeys(setItem(m, key, backup[key][1]), backup,
                        keys \ {key})

\* the backup is written over what the import left, without the clear
restoreBackup_NoClear(m, backup) ==
    restoreKeys(m, backup, {k \in DOMAIN backup : backup[k] # <<>>})

\* catch (storageError): clear the store and write every key of the backup
restoreBackup(m, backup) ==
    restoreKeys(clear(m), backup, {k \in DOMAIN backup : backup[k] # <<>>})

\* reader.onload of importData; confirmed is the answer to the confirm()
importData(ls, q, file, confirmed) ==
    LET checked == validate(file)
        backup == ls
        m == importFields([ls |-> ls, quota |-> q, thrown |-> "none"],
                          JSONparse(file), 1)
        r == restoreBackup([m EXCEPT !.thrown = "none"], backup)
    IN IF checked # "valid"
       THEN [result |-> checked, ls |-> ls, reload |-> FALSE]
       ELSE IF ~confirmed
       THEN [result |-> "Cancelled", ls |-> ls, reload |-> FALSE]
       ELSE IF Ok(m)
       THEN [result |-> "Imported", ls |-> m.ls, reload |-> TRUE]
       ELSE [result |-> IF Ok(r) THEN "ImportWriteFailed" ELSE r.thrown,
             ls |-> r.ls, reload |-> FALSE]

----------------------------------------------------------------------------
(* Export and import, each applied to a store, a quota and a file drawn    *)
(* from bounded sets; an exported file can then be imported.               *)

RECURSIVE DaysBefore(_, _)
DaysBefore(y, m) ==
    IF m = 1 THEN 0 ELSE DaysBefore(y, m - 1) + DaysInMonth(y, m - 1)

\* the date string of the k-th day of year y
DateInYear(y, k) ==
    LET m == CHOOSE j \in 1..12 :
                 /\ DaysBefore(y, j) < k
                 /\ k <= DaysBefore(y, j) + DaysInMonth(y, j)
    IN <<y, m, k - DaysBefore(y, m)>>

\* the first n days of the year after that of EpochDate
SampleDays(n) == {DateInYear(EpochDate[1] + 1, k) : k \in 1..n}

\* a history of n days with one entry a day
SampleHistory(n) ==
    [d \in SampleDays(n) |->
        <<[type |-> workoutTypes[1], count |-> 1, timestamp |-> d[3]]>>]

\* a string as the app stores it under the key; n tells two of them apart
SampleValue(key, n) ==
    IF key \in {GOAL_PREFIX(t) : t \in TrackerTypes} THEN [scalar |-> n]
    ELSE IF key \in {INTAKE_PREFIX(t) : t \in TrackerTypes}
    THEN [scalar |-> n + 2]
    ELSE IF key \in DateHistoryKeys THEN JSONstringify(SampleHistory(n))
    ELSE IF key = stateKey
    THEN JSONstringify([defaultWorkoutState EXCEPT
                           ![workoutTypes[1]].completed = (n > 1)])
    ELSE IF key = countKey
    THEN JSONstringify([defaultWorkoutCounts EXCEPT ![workoutTypes[1]] = n])
    ELSE IF key = habitsKey
    THEN JSONstringify(<<[id |-> 1, history |-> SampleHistory(n)]>>)
    ELSE IF key = THEME THEN [raw |-> n]
    ELSE IF key = REMINDER THEN [scalar |-> n + 4]
    ELSE formatDate(n)

\* the stores that hold few keys, and the store that holds every key
SampleStores ==
    {[k \in StorageKeys |-> IF k \in held THEN <<SampleValue(k, 1)>> ELSE <<>>] :
        held \in {ks \in SUBSET StorageKeys : Cardinality(ks) <= MaxStored}
                    \cup {StorageKeys}}

\* the quota: out of reach, reached by the store, or some units above it
SampleQuotas(ls) ==
    {NoQuota} \cup
    {[limited |-> TRUE, limit |-> getUsage(ls) + free] : free \in {0, MaxFree}}

\* the document whose fields with index in held hold a string: '' for the
\* indices in empty, a string of the app for the others
Document(held, empty) ==
    LET value(section, field) ==
            LET i == CHOOSE j \in 1..Len(DataFields) :
                        /\ DataFields[j].section = section
                        /\ DataFields[j].field = field
            IN IF i \notin held THEN <<>>
               ELSE IF i \in empty THEN <<[raw |-> 0]>>
               ELSE <<SampleValue(DataFields[i].key, 2)>>
    IN [water |-> <<[goal |-> value("water", "goal"),
                     intake |-> value("water", "intake"),
                     history |-> value("water", "history")]>>,
        protein |-> <<[goal |-> value("protein", "goal"),
                       intake |-> value("protein", "intake"),
                       history |-> value("protein", "history")]>>,
        workout |-> <<[state |-> value("workout", "state"),
                       count |-> value("workout", "count"),
                       history |-> value("workout", "history")]>>,
        habits |-> <<[data |-> value("habits", "data")]>>,
        settings |-> <<[theme |-> value("settings", "theme"),
                        reminder |-> value("settings", "reminder")]>>]

ValidFiles ==
    UNION {{JSONstringify(Document(held, empty)) : empty \in SUBSET held} :
              held \in {fs \in SUBSET (1..Len(DataFields)) :
                            Cardinality(fs) <= MaxFields}}

\* a document with a string of the app in every field
FullDocument == Document(1..Len(DataFields), {})

\* a document whose only string has n characters
LongDocument(n) ==
    [Document({}, {}) EXCEPT !.water[1].history = <<[raw |-> n]>>]

\* the whole document, and files the validation has to tell apart: no
\* JSON text, null, a number, a required section absent or no object, a
\* long string
OtherFiles ==
    {[raw |-> 1], [scalar |-> 0], [scalar |-> 1],
     JSONstringify(FullDocument),
     JSONstringify([FullDocument EXCEPT !.water = <<>>]),
     JSONstringify([FullDocument EXCEPT !.protein = <<>>]),
     JSONstringify([FullDocument EXCEPT !.water = <<[scalar |-> 1]>>]),
     JSONstringify([FullDocument EXCEPT !.protein = <<[scalar |-> 1]>>]),
     JSONstringify([FullDocument EXCEPT !.workout = <<[scalar |-> 1]>>,
                                        !.habits = <<>>, !.settings = <<>>]),
     JSONstringify(LongDocument(availableSpace)),
     JSONstringify(LongDocument(availableSpace - 1))}

Files == ValidFiles \cup OtherFiles

InitData ==
    /\ \E ls \in SampleStores :
          /\ localStorage = ls
          /\ quota \in SampleQuotas(ls)
          /\ last = [op |-> "start", result |-> "none", file |-> <<>>,
                     confirmed |-> FALSE, before |-> ls, reload |-> FALSE]
    /\ today = 0
    /\ workoutState = defaultWorkoutState
    /\ workoutCounts = defaultWorkoutCounts
    /\ workoutHistory = emptyHistory
    /\ tabs = <<>>
    /\ midnightTimers = <<>>
    /\ globalReminderInterval = <<>>
    /\ intervalTimers = <<>>
    /\ reloadTimers = <<>>

\* click on "export"
ExportData ==
    /\ last.op = "start"
    /\ LET r == exportData(localStorage) IN
         /\ localStorage' = r.ls
         /\ last' = [op |-> "export", result |-> r.result, file |-> r.file,
                     confirmed |-> FALSE, before |-> localStorage,
                     reload |-> FALSE]
    /\ UNCHANGED <<globalReminderInterval, intervalTimers, reloadTimers>>
    /\ UNCHANGED <<today, workoutState, workoutCounts, workoutHistory, quota,
                   tabs, midnightTimers>>

\* a file is chosen and read: a file of the user, or the file just exported
ImportData(file, confirmed) ==
    /\ \/ last.op = "start" /\ file \in Files
       \/ last.op = "export" /\ last.file = <<file>>
    /\ LET r == importData(localStorage, quota, file, confirmed) IN
         /\ localStorage' = r.ls
         /\ last' = [op |-> IF last.op = "start" THEN "import"
                            ELSE "importExported",
                     result |-> r.result, file |-> <<file>>,
                     confirmed |-> confirmed,
                     before |-> IF last.op = "start" THEN localStorage
                                ELSE last.before,
                     reload |-> r.reload]
    /\ UNCHANGED <<globalReminderInterval, intervalTimers, reloadTimers>>
    /\ UNCHANGED <<today, workoutState, workoutCounts, workoutHistory, quota,
                   tabs, midnightTimers>>

NextData ==
    \/ ExportData
    \/ \E file \in Files \cup Range(last.file), confirmed \in BOOLEAN :
          ImportData(file, confirmed)

SpecData == InitData /\ [][NextData]_vars

----------------------------------------------------------------------------
(* cleanupOldData and safeSetItem, each applied to a store and a quota     *)
(* drawn from bounded sets.  A history holds no date, as many days as are  *)
(* kept, or some days more.                                                *)

FullHistory == SampleHistory(RetentionDays)

LongHistory == [e \in 1..MaxExcess |-> SampleHistory(RetentionDays + e)]

\* the stores whose long histories hold e days too many
HistoryStores(e) ==
    LET full == <<JSONstringify(FullHistory)>>
        long == <<JSONstringify(LongHistory[e])>>
        habits(first, second) == <<JSONstringify(<<first, second>>)>>
    IN {[k \in StorageKeys |->
            IF k = HISTORY_PREFIX("water") THEN water
            ELSE IF k = HISTORY_PREFIX("protein") THEN protein
            ELSE IF k = historyKey THEN workout
            ELSE IF k = habitsKey THEN habit
            ELSE IF k = INTAKE_PREFIX("water") THEN intake
            ELSE <<SampleValue(k, 1)>>] :
          water \in {<<>>, <<[raw |-> 1]>>, full, long},
          protein \in {<<>>, long},
          workout \in {full, long},
          habit \in {<<>>,
                     habits([id |-> 1, name |-> "run",
                             history |-> LongHistory[e]],
                            [id |-> 2, name |-> "read",
                             history |-> FullHistory]),
                     habits([id |-> 1, name |-> "run"],
                            [id |-> 2, name |-> "read",
                             history |-> LongHistory[e]]),
                     habits([id |-> 1, name |-> "run"],
                            [id |-> 2, name |-> "read",
                             history |-> FullHistory])},
          intake \in {<<>>, <<[raw |-> 1]>>}}

InitStorage ==
    /\ \E e \in 1..MaxExcess : \E ls \in HistoryStores(e) :
          /\ localStorage = ls
          /\ quota \in SampleQuotas(ls)
          /\ last = [op |-> "start", before |-> ls]
    /\ today = 0
    /\ workoutState = defaultWorkoutState
    /\ workoutCounts = defaultWorkoutCounts
    /\ workoutHistory = emptyHistory
    /\ tabs = <<>>
    /\ midnightTimers = <<>>
    /\ globalReminderInterval = <<>>
    /\ intervalTimers = <<>>
    /\ reloadTimers = <<>>

\* a call of storageManager.cleanupOldData()
CleanupOldData ==
    /\ last.op = "start"
    /\ LET c == cleanupOldData(localStorage, quota) IN
         /\ localStorage' = c.ls
         /\ last' = [op |-> "cleanup", before |-> localStorage,
                     returned |-> c.cleanedUp, thrown |-> c.thrown]
    /\ UNCHANGED <<globalReminderInterval, intervalTimers, reloadTimers>>
    /\ UNCHANGED <<today, workoutState, workoutCounts, workoutHistory, quota,
                   tabs, midnightTimers>>

\* a call of storageManager.safeSetItem(key, value)
SafeSetItem(key, value) ==
    /\ last.op = "start"
    /\ LET r == safeSetItem(localStorage, quota, key, value) IN
         /\ localStorage' = r.ls
         /\ last' = [op |-> "safeSetItem", before |-> localStorage,
                     key |-> key, value |-> value, returned |-> r.returned,
                     attempts |-> r.attempts, cleanups |-> r.cleanups,
                     thrown |-> r.thrown]
    /\ UNCHANGED <<globalReminderInterval, intervalTimers, reloadTimers>>
    /\ UNCHANGED <<today, workoutState, workoutCounts, workoutHistory, quota,
                   tabs, midnightTimers>>

NextStorage ==
    \/ CleanupOldData
    \/ \E n \in 2..(MaxFree + 1) :
          SafeSetItem(INTAKE_PREFIX("water"), [raw |-> n])

SpecStorage == InitStorage /\ [][NextStorage]_vars

----------------------------------------------------------------------------
(* The page left open: the tracker is not constructed again, and the only  *)
(* caller of checkAndResetDailyWorkouts is the callback of the midnight    *)
(* timer.  The event loop runs a callback whose delay is over, hence the   *)
(* weak fairness of MidnightTimer.                                         *)

NextOpen ==
    \/ AdvanceDate
    \/ \E type \in Types : Toggle(type)
    \/ ResetTabs
    \/ MidnightTimer

SpecOpen == Init /\ [][NextOpen]_vars /\ WF_vars(MidnightTimer)

\* C11: with the page left open and the timer callbacks run once their delay
\* is over, a marker that is not the local date (the date has changed) leads
\* to a rollover by the timer: the marker is the local date and every type
\* is incomplete, in default order, with count 0.
C11_TimerRollsOver ==
    (Marker # <<Today>>) ~>
        (/\ Marker = <<Today>>
         /\ last.op = "timer"
         /\ last.resets = 1
         /\ AllReset(workoutState, workoutCounts))

\* the timer rolled over a set that had a completed type, on a later day
C11_Witness ==
    /\ last.op = "timer"
    /\ last.hadCompleted
    /\ last.markerWrites = 1
    /\ today >= 1
    /\ Marker = <<Today>>
    /\ AllReset(workoutState, workoutCounts)

----------------------------------------------------------------------------
(* Properties of export and import *)

ImportOps == {"import", "importExported"}

Rejections ==
    {"NotJSON", "MalformedSnapshot", "MissingSection", "InvalidSectionFormat",
     "TooLarge"}

IsDocument(file) == "json" \in DOMAIN file

\* the file last imported and, when it holds one, its document
LastFile == last.file[1]
LastDocument == JSONparse(LastFile)

HeldKeys(ls) == {k \in DOMAIN ls : ls[k] # <<>>}

\* C12: an import of a file that is no document, or whose document lacks
\* water or protein, or has a required section that is no object, or is
\* longer than 90% of the assumed room, is rejected and leaves every key of
\* the store as it was; a document without protein is rejected with
\* MissingSection.
C12_RejectedImportWritesNothing ==
    last.op \in ImportOps =>
        /\ (\/ ~IsDocument(LastFile)
            \/ \E section \in requiredSections :
                  \/ LastDocument[section] = <<>>
                  \/ ~isObject(LastDocument[section])
            \/ 10 * importSize(LastDocument, 1) > 9 * availableSpace)
              => last.result \in Rejections
        /\ last.result \in Rejections => localStorage = last.before
        /\ IsDocument(LastFile) /\ LastDocument.protein = <<>>
              => last.result = "MissingSection"

\* a document with water and without protein was rejected on a store that
\* holds every key
C12_Witness ==
    /\ last.op = "import"
    /\ last.confirmed
    /\ IsDocument(LastFile)
    /\ LastDocument.water # <<>>
    /\ LastDocument.protein = <<>>
    /\ last.result = "MissingSection"
    /\ HeldKeys(last.before) = StorageKeys

\* C13: when a write of an accepted and confirmed import fails, the store
\* holds afterwards exactly the keys and values it held before the import,
\* and the result is ImportWriteFailed.
C13_ImportAllOrNothing ==
    (/\ last.op \in ImportOps
     /\ last.confirmed
     /\ last.result \notin Rejections
     /\ ~Ok(importFields([ls |-> last.before, quota |-> quota,
                          thrown |-> "none"], LastDocument, 1)))
        => /\ localStorage = last.before
           /\ last.result = "ImportWriteFailed"

\* the import had created the key of the goal of water before a later
\* write failed
C13_Witness ==
    /\ last.op = "import"
    /\ last.result = "ImportWriteFailed"
    /\ last.before[GOAL_PREFIX("water")] = <<>>
    /\ HeldKeys(last.before) # {}
    /\ Ok(importField([ls |-> last.before, quota |-> quota,
                       thrown |-> "none"], LastDocument, DataFields[1]))
    /\ truthy(fieldOf(LastDocument, DataFields[1]))
    /\ localStorage = last.before

C15_ExportImportRoundTrip ==
    last.op = "importExported" => localStorage = last.before

\* the exported file of the store that holds every key was imported
C15_Witness ==
    /\ last.op = "importExported"
    /\ last.result = "Imported"
    /\ HeldKeys(last.before) = StorageKeys
    /\ \A i \in 1..Len(DataFields) :
          fieldOf(LastDocument, DataFields[i]) = last.before[DataFields[i].key]

\* C16 (as stated): exportData ends with NoData exactly when the store holds
\* no goal, no intake and no habits data, and changes no key.
C16_NoDataIffNothingStored ==
    last.op = "export" =>
        /\ last.result = "NoData" <=>
              /\ \A t \in TrackerTypes :
                    /\ last.before[GOAL_PREFIX(t)] = <<>>
                    /\ last.before[INTAKE_PREFIX(t)] = <<>>
              /\ last.before[habitsKey] = <<>>
        /\ localStorage = last.before

----------------------------------------------------------------------------
(* Properties of cleanupOldData and safeSetItem *)

\* the stored string is the JSON text of an object or an array
IsHistory(v) == v # <<>> /\ "json" \in DOMAIN v[1]

\* after holds the RetentionDays most recent dates of before, or all of
\* them when they are fewer, each with the entries it had
KeptMostRecent(before, after) ==
    /\ DOMAIN after \subseteq DOMAIN before
    /\ Cardinality(DOMAIN after) =
          IF Cardinality(DOMAIN before) < RetentionDays
          THEN Cardinality(DOMAIN before) ELSE RetentionDays
    /\ \A d \in DOMAIN after : after[d] = before[d]
    /\ \A d \in DOMAIN after : \A e \in DOMAIN before \ DOMAIN after :
          StrLT(e, d)

RanCleanup ==
    \/ last.op = "cleanup"
    \/ last.op = "safeSetItem" /\ last.cleanups = 1

\* C17: after cleanupOldData every date-keyed history under history_water,
\* history_protein and workout_history that held n dates holds the
\* min(n, 90) most recent of them with their entries unchanged, and so does
\* the history of each habit of habits_data, the habits being otherwise
\* unchanged.
C17_CleanupKeepsMostRecent ==
    RanCleanup =>
        /\ \A k \in DateHistoryKeys :
              IsHistory(last.before[k]) =>
                  /\ IsHistory(localStorage[k])
                  /\ KeptMostRecent(JSONparse(last.before[k][1]),
                                    JSONparse(localStorage[k][1]))
        /\ IsHistory(last.before[habitsKey]) =>
              /\ IsHistory(localStorage[habitsKey])
              /\ LET before == JSONparse(last.before[habitsKey][1])
                     after == JSONparse(localStorage[habitsKey][1])
                 IN /\ Len(after) = Len(before)
                    /\ \A i \in 1..Len(before) :
                          IF hasHistory(before[i])
                          THEN /\ hasHistory(after[i])
                               /\ after[i].id = before[i].id
                               /\ KeptMostRecent(before[i].history,
                                                 after[i].history)
                          ELSE after[i] = before[i]

\* cleanupOldData cut the history of water and the history of a habit down
\* to the days kept
C17_Witness ==
    /\ last.op = "cleanup"
    /\ IsHistory(last.before[HISTORY_PREFIX("water")])
    /\ tooLong(JSONparse(last.before[HISTORY_PREFIX("water")][1]))
    /\ Cardinality(DOMAIN JSONparse(localStorage[HISTORY_PREFIX("water")][1]))
          = RetentionDays
    /\ IsHistory(last.before[habitsKey])
    /\ \E i \in 1..Len(JSONparse(last.before[habitsKey][1])) :
          /\ hasHistory(JSONparse(last.before[habitsKey][1])[i])
          /\ tooLong(JSONparse(last.before[habitsKey][1])[i].history)
          /\ ~tooLong(JSONparse(localStorage[habitsKey][1])[i].history)

\* the first setItem(key, value) of the last safeSetItem throws
FirstWriteFails ==
    ~Fits([last.before EXCEPT ![last.key] = <<last.value>>], quota)

\* a history of the store lost dates
PrunedSomething ==
    \E i \in 1..Len(historyKeys) :
        localStorage[historyKeys[i]] # last.before[historyKeys[i]]

\* C18: safeSetItem lets no exception through and returns true exactly when
\* the value is stored; it runs cleanupOldData exactly when the first write
\* fails for the quota, and writes a second time, once, only if the cleanup
\* pruned something.
C18_SafeSetItemRetriesOnce ==
    last.op = "safeSetItem" =>
        /\ last.thrown = "none"
        /\ last.returned <=> localStorage[last.key] = <<last.value>>
        /\ last.cleanups = (IF FirstWriteFails THEN 1 ELSE 0)
        /\ last.attempts \in {1, 2}
        /\ last.attempts = 2 => FirstWriteFails /\ PrunedSomething
        /\ ~FirstWriteFails => last.returned

\* the write failed, the cleanup pruned a history and the second write
\* stored the value
C18_Witness ==
    /\ last.op = "safeSetItem"
    /\ FirstWriteFails
    /\ PrunedSomething
    /\ last.attempts = 2
    /\ last.returned
    /\ localStorage[last.key] = <<last.value>>

----------------------------------------------------------------------------
(* The tracker on a store that is nearly full *)

\* the other data of the origin grows until the quota leaves room for
\* `free` more units than the store holds now
StorageFills(free) ==
    /\ ~quota.limited
    /\ quota' = [limited |-> TRUE, limit |-> getUsage(localStorage) + free]
    /\ last' = Done("storageFills", "none", This, localStorage, today)
    /\ UNCHANGED <<globalReminderInterval, intervalTimers, reloadTimers>>
    /\ UNCHANGED <<today, workoutState, workoutCounts, workoutHistory,
                   localStorage, tabs, midnightTimers>>

NextQuota ==
    \/ AdvanceDate
    \/ \E type \in Types : Toggle(type)
    \/ ResetTabs
    \/ CheckRollover
    \/ MidnightTimer
    \/ \E free \in {0, MaxFree} : StorageFills(free)

SpecQuota == Init /\ [][NextQuota]_vars

TrackerOps == {"init", "toggle", "resetTabs", "check", "timer"}

\* C19: after every completed tracker operation the values stored under
\* workout_state, workout_count and workout_history are the serialization
\* of the in-memory state, counts and history, an absent history key
\* counting as the empty history.
C19_StoreMirrorsMemory ==
    (last.op \in TrackerOps /\ last.thrown = "none") =>
        /\ getItem(localStorage, stateKey) = <<JSONstringify(workoutState)>>
        /\ getItem(localStorage, countKey) = <<JSONstringify(workoutCounts)>>
        /\ IF getItem(localStorage, historyKey) = <<>>
           THEN workoutHistory = emptyHistory
           ELSE getItem(localStorage, historyKey) =
                    <<JSONstringify(workoutHistory)>>

\* C20: no tracker operation lets a storage exception through.
C20_NoRawException ==
    last.op \in TrackerOps => last.thrown = "none"

----------------------------------------------------------------------------
(* The tracker on a store edited from outside the page *)

\* window.workoutTracker is set: the last construction did not throw
TrackerExists == tabs # <<>>

\* the value of a tracker key is replaced, outside the program, by a text
\* that is no JSON
Tamper(key) ==
    /\ parses(localStorage[key])
    /\ localStorage' = [localStorage EXCEPT ![key] = <<[raw |-> 1]>>]
    /\ last' = [Done("tamper", "none", This, localStorage, today)
                   EXCEPT !.unparseable = unparseable(localStorage')]
    /\ UNCHANGED <<globalReminderInterval, intervalTimers, reloadTimers>>
    /\ UNCHANGED <<today, workoutState, workoutCounts, workoutHistory, quota,
                   tabs, midnightTimers>>

NextTampered ==
    \/ AdvanceDate
    \/ \E type \in Types : Toggle(type)
    \/ \E key \in {stateKey, countKey, historyKey} : Tamper(key)
    \/ Reload

SpecTampered == Init /\ [][NextTampered]_vars

\* C21: when a tracker key holds a text that is no JSON, constructing the
\* tracker does not fail; the entity of that key is default-constructed
\* (all types incomplete, counts 0, empty history) and the tracker
\* initializes normally.
C21_UnparseableKeyDefaults ==
    last.op = "init" =>
        /\ last.thrown = "none"
        /\ TrackerExists
        /\ stateKey \in last.unparseable =>
              \A u \in Types : ~workoutState[u].completed
                                /\ workoutState[u].order = indexOf(u)
        /\ countKey \in last.unparseable =>
              \A u \in Types : workoutCounts[u] = 0
        /\ historyKey \in last.unparseable =>
              workoutHistory = emptyHistory

----------------------------------------------------------------------------
(* The reminder timer *)

\* clearInterval(handle): the timer of that handle stops
clearInterval(timers, handle) ==
    [i \in DOMAIN timers |->
        IF i = handle THEN [timers[i] EXCEPT !.active = FALSE]
        ELSE timers[i]]

\* setInterval(callback, milliseconds): a new timer; its handle is the
\* number of timers made so far, a positive integer
setInterval(timers, milliseconds) ==
    Append(timers, [delay |-> milliseconds, active |-> TRUE])

\* the existing timer is not cleared
startGlobalReminder_NoClear(r, minutes) ==
    LET milliseconds == minutes * 60 * 1000
        timers == setInterval(r.intervalTimers, milliseconds)
    IN [globalReminderInterval |-> <<Len(timers)>>,
        intervalTimers |-> timers]

startGlobalReminder(r, minutes) ==
    LET g == r.globalReminderInterval
        cleared == IF g # <<>> /\ g[1] # 0
                   THEN clearInterval(r.intervalTimers, g[1])
                   ELSE r.intervalTimers
        milliseconds == minutes * 60 * 1000
        timers == setInterval(cleared, milliseconds)
    IN [globalReminderInterval |-> <<Len(timers)>>,
        intervalTimers |-> timers]

InitReminder ==
    /\ today = 0
    /\ quota = NoQuota
    /\ localStorage = EmptyStorage
    /\ workoutState = defaultWorkoutState
    /\ workoutCounts = defaultWorkoutCounts
    /\ workoutHistory = emptyHistory
    /\ tabs = <<>>
    /\ midnightTimers = <<>>
    /\ globalReminderInterval = <<>>
    /\ intervalTimers = <<>>
    /\ reloadTimers = <<>>
    /\ last = [op |-> "start", minutes |-> 0, handle |-> 0]

\* the reminder is configured with an interval in minutes
StartGlobalReminder(minutes) ==
    /\ Len(intervalTimers) < MaxReminders
    /\ LET r == startGlobalReminder(
                    [globalReminderInterval |-> globalReminderInterval,
                     intervalTimers |-> intervalTimers], minutes)
       IN /\ globalReminderInterval' = r.globalReminderInterval
          /\ intervalTimers' = r.intervalTimers
          /\ last' = [op |-> "startGlobalReminder", minutes |-> minutes,
                      handle |-> r.globalReminderInterval[1]]
    /\ UNCHANGED <<today, workoutState, workoutCounts, workoutHistory,
                   localStorage, quota, tabs, midnightTimers, reloadTimers>>

\* the callback of an active interval timer runs: a notification and a
\* toast; the timer stays
ReminderFires(handle) ==
    /\ intervalTimers[handle].active
    /\ last' = [op |-> "reminder", minutes |-> 0, handle |-> handle]
    /\ UNCHANGED <<today, workoutState, workoutCounts, workoutHistory,
                   localStorage, quota, tabs, midnightTimers,
                   globalReminderInterval, intervalTimers, reloadTimers>>

NextReminder ==
    \/ \E minutes \in 0..MaxMinutes : StartGlobalReminder(minutes)
    \/ \E handle \in DOMAIN intervalTimers : ReminderFires(handle)

SpecReminder == InitReminder /\ [][NextReminder]_vars

ActiveTimers == {i \in DOMAIN intervalTimers : intervalTimers[i].active}

\* C22: at most one reminder timer is active at any time; after any
\* sequence of startGlobalReminder calls with any intervals the only active
\* interval timer is the one made by the last call, with its interval, and
\* every earlier one has been cleared.
C22_OneReminderTimer ==
    /\ Cardinality(ActiveTimers) <= 1
    /\ IF intervalTimers = <<>>
       THEN globalReminderInterval = <<>>
       ELSE /\ globalReminderInterval = <<Len(intervalTimers)>>
            /\ ActiveTimers = {Len(intervalTimers)}
    /\ last.op = "startGlobalReminder" =>
          /\ last.handle = Len(intervalTimers)
          /\ intervalTimers[last.handle].delay = last.minutes * 60000

\* a third call, with an interval other than the one of the call before,
\* left its timer as the only active one
C22_Witness ==
    /\ last.op = "startGlobalReminder"
    /\ Len(intervalTimers) >= 3
    /\ intervalTimers[Len(intervalTimers)].delay #
           intervalTimers[Len(intervalTimers) - 1].delay
    /\ ActiveTimers = {Len(intervalTimers)}

----------------------------------------------------------------------------
(* Properties of the tracker, continued *)

\* C23: from initialization on exactly one midnight timer is pending
\* between handler runs; a firing has run the rollover check and left
\* exactly one successor, set for the next midnight.
C23_OneMidnightTimer ==
    /\ Len(midnightTimers) = 1
    /\ last.op = "timer" =>
          /\ Marker = <<Today>>
          /\ midnightTimers = <<FALSE>>

\* C24: for every tracked type, order is the index of the type in the
\* canonical type list, in memory and under workout_state, in every
\* reachable state: after construction, after every reset, toggle and
\* rollover.
C24_OrderIsCanonicalIndex ==
    /\ \A u \in Types : workoutState[u].order = indexOf(u)
    /\ getItem(localStorage, stateKey) # <<>>
    /\ \A u \in Types :
          JSONparse(getItem(localStorage, stateKey)[1])[u].order = indexOf(u)

\* a reset made while the first type was completed, and so displayed last
C24_Witness ==
    /\ last.op = "resetTabs"
    /\ last.hadCompleted
    /\ last.resets = 1
    /\ \A u \in Types : workoutState[u].order = indexOf(u)
    /\ tabs[1].type = workoutTypes[1]
    /\ workoutHistory # emptyHistory

----------------------------------------------------------------------------
(* Properties of cleanupOldData, continued *)

\* a date of a history stored before the last call is no longer stored
BucketRemoved ==
    \/ \E k \in DateHistoryKeys :
          /\ IsHistory(last.before[k])
          /\ DOMAIN JSONparse(localStorage[k][1]) #
                DOMAIN JSONparse(last.before[k][1])
    \/ /\ IsHistory(last.before[habitsKey])
       /\ \E i \in 1..Len(JSONparse(last.before[habitsKey][1])) :
             /\ hasHistory(JSONparse(last.before[habitsKey][1])[i])
             /\ DOMAIN JSONparse(localStorage[habitsKey][1])[i].history #
                   DOMAIN JSONparse(last.before[habitsKey][1])[i].history

OtherFields(habit) == [f \in DOMAIN habit \ {"history"} |-> habit[f]]

\* C26: cleanupOldData only removes date buckets from histories: the value
\* of every other key (goal, intake, workout_state, workout_count, the
\* reset marker, theme, reminder) is unchanged, the habits are the same
\* with the same names, and a history of 90 dates or fewer keeps its
\* content.
C26_CleanupChangesHistoriesOnly ==
    last.op = "cleanup" =>
        /\ \A k \in StorageKeys \ Range(historyKeys) :
              localStorage[k] = last.before[k]
        /\ \A k \in DateHistoryKeys :
              IF IsHistory(last.before[k])
              THEN LET before == JSONparse(last.before[k][1])
                       after == JSONparse(localStorage[k][1])
                   IN /\ DOMAIN after \subseteq DOMAIN before
                      /\ \A d \in DOMAIN after : after[d] = before[d]
                      /\ ~tooLong(before) => DOMAIN after = DOMAIN before
              ELSE localStorage[k] = last.before[k]
        /\ IF IsHistory(last.before[habitsKey])
           THEN LET before == JSONparse(last.before[habitsKey][1])
                    after == JSONparse(localStorage[habitsKey][1])
                IN /\ Len(after) = Len(before)
                   /\ \A i \in 1..Len(before) :
                         /\ OtherFields(after[i]) = OtherFields(before[i])
                         /\ hasHistory(after[i]) <=> hasHistory(before[i])
                         /\ hasHistory(before[i]) =>
                               /\ DOMAIN after[i].history \subseteq
                                     DOMAIN before[i].history
                               /\ \A d \in DOMAIN after[i].history :
                                     after[i].history[d] =
                                         before[i].history[d]
                               /\ ~tooLong(before[i].history) =>
                                     after[i].history = before[i].history
           ELSE localStorage[habitsKey] = last.before[habitsKey]

\* a cleanup that pruned a habit of a store holding the current state of
\* the trackers and a history of water of just the days kept
C26_Witness ==
    /\ last.op = "cleanup"
    /\ last.returned
    /\ \A k \in StorageKeys \ Range(historyKeys) : last.before[k] # <<>>
    /\ IsHistory(last.before[HISTORY_PREFIX("water")])
    /\ Cardinality(DOMAIN JSONparse(localStorage[HISTORY_PREFIX("water")][1]))
          = RetentionDays
    /\ localStorage[HISTORY_PREFIX("water")] =
          last.before[HISTORY_PREFIX("water")]
    /\ localStorage[habitsKey] # last.before[habitsKey]

----------------------------------------------------------------------------
(* Invariants of the tracker state *)

\* C27: for every tracked type, completed is true exactly when the count is
\* at least 1, and the count is a non-negative integer, in every state
\* reached from an empty store by toggles, resets and rollover checks.
C27_CompletedIffCounted ==
    \A t \in Types :
        /\ workoutCounts[t] \in Nat
        /\ workoutState[t].completed <=> workoutCounts[t] >= 1

\* after a rollover, one type was toggled twice and another not at all
C27_Witness ==
    /\ last.op = "toggle"
    /\ today >= 1
    /\ workoutCounts[last.type] = 2
    /\ workoutState[last.type].completed
    /\ \E t \in Types : workoutCounts[t] = 0 /\ ~workoutState[t].completed

\* C28: in every state between operations at least one tracked type is
\* incomplete, in memory and under workout_state: the state with every
\* type completed does not outlast the toggle that produces it.
C28_NeverAllCompleted ==
    /\ \E t \in Types : ~workoutState[t].completed
    /\ getItem(localStorage, stateKey) # <<>> =>
          \E t \in Types :
              ~JSONparse(getItem(localStorage, stateKey)[1])[t].completed

----------------------------------------------------------------------------
(* Handlers that run between two others *)

\* C29: an entry recorded by toggleWorkout on a date is never removed by a
\* rollover: after a rollover check, whichever way it was started, every
\* bucket of the history still begins with the entries it held, in memory
\* and in the store.
C29_RolloverKeepsEntries ==
    [][CheckStep =>
          /\ \A d \in DOMAIN workoutHistory :
                /\ d \in DOMAIN workoutHistory'
                /\ SubSeq(workoutHistory'[d], 1, Len(workoutHistory[d])) =
                      workoutHistory[d]
          /\ \A d \in DOMAIN StoredHistory(localStorage) :
                /\ d \in DOMAIN StoredHistory(localStorage')
                /\ SubSeq(StoredHistory(localStorage')[d], 1,
                          Len(StoredHistory(localStorage)[d])) =
                      StoredHistory(localStorage)[d]]_vars

----------------------------------------------------------------------------
(* An import while the tracker is on the page: importData writes the store *)
(* and sets a timer that reloads the page; until the timer runs, the       *)
(* handlers of the tracker still run on the state they hold in memory.     *)

WorkoutKeys == {stateKey, countKey, historyKey}

WorkoutFields ==
    {i \in 1..Len(DataFields) : DataFields[i].key \in WorkoutKeys}

\* the files the user imports: the whole document, a document whose only
\* string is the workout history, and a file that is no JSON text
WorkoutFiles ==
    {JSONstringify(FullDocument),
     JSONstringify(Document({i \in WorkoutFields :
                                DataFields[i].key = historyKey}, {})),
     [raw |-> 1]}

\* the string importData stores under each key of the tracker; <<>> where
\* it stores none
written(file) ==
    [key \in WorkoutKeys |->
        LET i == CHOOSE j \in WorkoutFields : DataFields[j].key = key
            v == fieldOf(JSONparse(file), DataFields[i])
        IN IF truthy(v) THEN v ELSE <<>>]

ReloadPending == \E i \in DOMAIN reloadTimers : reloadTimers[i].pending

\* a file is chosen and read while no reload is pending
ImportFile(file, confirmed) ==
    /\ ~ReloadPending
    /\ Len(reloadTimers) < MaxImports
    /\ LET r == importData(localStorage, quota, file, confirmed) IN
         /\ localStorage' = r.ls
         /\ reloadTimers' =
               IF r.reload
               THEN Append(reloadTimers,
                           [pending |-> TRUE, written |-> written(file)])
               ELSE reloadTimers
         /\ last' = Done(IF r.reload THEN "import" ELSE "noImport", "none",
                         This, localStorage, today)
    /\ UNCHANGED <<today, workoutState, workoutCounts, workoutHistory, quota,
                   tabs, midnightTimers, globalReminderInterval,
                   intervalTimers>>

\* the callback () => location.reload() runs: the page is loaded again
ReloadTimer ==
    /\ ReloadPending
    /\ LET m == constructor(localStorage, quota, today) IN
         /\ Commit(m)
         /\ last' = Done("init", "none", m, localStorage, today)
         /\ midnightTimers' = IF Ok(m) THEN setupMidnightReset(<<>>) ELSE <<>>
    /\ reloadTimers' = [i \in DOMAIN reloadTimers |->
                           [reloadTimers[i] EXCEPT !.pending = FALSE]]
    /\ UNCHANGED <<today, quota, globalReminderInterval, intervalTimers>>

NextImport ==
    \/ AdvanceDate
    \/ \E type \in Types : Toggle(type)
    \/ ResetTabs
    \/ MidnightTimer
    \/ \E file \in WorkoutFiles, confirmed \in BOOLEAN :
          ImportFile(file, confirmed)
    \/ ReloadTimer

SpecImport == Init /\ [][NextImport]_vars

\* C30: while the reload set by a successful import is pending, the store
\* holds under workout_state, workout_count and workout_history the values
\* the import wrote, whatever toggle, reset or midnight-timer callback ran
\* since the import.
C30_ImportedValuesStay ==
    \A i \in DOMAIN reloadTimers :
        reloadTimers[i].pending =>
            \A key \in WorkoutKeys :
                reloadTimers[i].written[key] # <<>> =>
                    getItem(localStorage, key) = reloadTimers[i].written[key]

----------------------------------------------------------------------------
(* resetAllData while the tracker is on the page: the keys are removed and *)
(* a timer is set that reloads the page; until the timer runs, the         *)
(* handlers of the tracker still run on the state they hold in memory.     *)

\* the keys resetAllData removes
ResetKeys == {stateKey, countKey, historyKey, lastResetKey}

\* localStorage.removeItem(key)
removeItem(m, key) == IF ~Ok(m) THEN m ELSE [m EXCEPT !.ls[key] = <<>>]

\* resetAllData, before the setTimeout of the reload
resetAllData(m) ==
    showToast(
        removeItem(removeItem(removeItem(removeItem(m, stateKey), countKey),
                              historyKey), lastResetKey),
        "allDataReset")

\* the user's "reset all data" action, while no reload is pending
ResetAllData ==
    /\ ~ReloadPending
    /\ Len(reloadTimers) < MaxResets
    /\ LET m == resetAllData(This) IN
         /\ Commit(m)
         /\ last' = Done("resetAllData", "none", m, localStorage, today)
         /\ reloadTimers' =
               Append(reloadTimers,
                      [pending |-> TRUE,
                       written |-> [key \in ResetKeys |-> getItem(m.ls, key)]])
    /\ UNCHANGED <<today, quota, midnightTimers, globalReminderInterval,
                   intervalTimers>>

NextReset ==
    \/ AdvanceDate
    \/ \E type \in Types : Toggle(type)
    \/ MidnightTimer
    \/ ResetAllData
    \/ ReloadTimer

SpecReset == Init /\ [][NextReset]_vars

\* C31: while the reload set by resetAllData is pending, the keys
\* workout_state, workout_count, workout_history and lastResetDate_workout
\* are absent from the store, whatever toggle or midnight-timer callback
\* ran since the reset.
C31_ResetKeysStayAbsent ==
    ReloadPending => \A key \in ResetKeys : getItem(localStorage, key) = <<>>

====
